---- MODULE Spec2Model ----
(***************************************************************************)
(* Torrent::download (src/src/torrent.rs) and the peer session it drives   *)
(* (src/src/peer.rs): setup of the sessions, the piece tasks, the block    *)
(* tasks that share one session's stream, hash verification and assembly.  *)
(*                                                                         *)
(* Lengths and offsets are in bytes.  The content of a buffer is kept in   *)
(* units of half a block: each unit is an integer that names what its      *)
(* bytes are (TrueUnit(p, u) for the bytes of the file in unit u of piece  *)
(* p, Garbage for anything else, Zero for the bytes of a fresh buffer).    *)
(*                                                                         *)
(* torrent.rs calls Peer::new, prepare_download and load_piece(index,      *)
(* piece_len); peer.rs holds them as Peer::handshake and as the two halves *)
(* of load_piece (the INTERESTED/UNCHOKE exchange, then the block loop),   *)
(* which is where the model takes them from.                               *)
(*                                                                         *)
(* Specifications: Spec is Torrent::download; FairSpec is Spec with the    *)
(* fairness of the executor; SpecMagnet is magnet_download_piece and       *)
(* Magnet::handshake (src/src/main.rs, src/src/magnet.rs); SpecSizes is    *)
(* the piece lengths download computes, over every metainfo that decodes;  *)
(* SpecRequests is download on a piece of many blocks, up to the REQUESTs;  *)
(* SpecBlocks is the block loop of load_piece over piece lengths in bytes. *)
(***************************************************************************)
EXTENDS Integers, Sequences, FiniteSets, TLC

----------------------------------------------------------------------------
(* Bounds of the model *)

\* endpoints returned by the tracker
MaxEndpoints == 2
\* pieces of the torrent
MaxPieces == 2
\* blocks of the torrent, over all pieces
MaxBlocks == 2
\* faults of the peers in one run: a stream that fails, a frame that answers
\* no request, data other than the data asked for
MaxFaults == 2
\* piece tasks re-spawned by the join loop in one run
MaxRespawns == 1

----------------------------------------------------------------------------
(* Program constants *)

BLOCK_SIZE == 16384
MAX_RETRIES == 3

UNCHOKE == 1
INTERESTED == 2
BITFIELD == 5
REQUEST == 6
PIECE == 7

\* the variants of enum MessageTag
MessageTag == {BITFIELD, INTERESTED, UNCHOKE, REQUEST, PIECE}

\* message ids of the wire protocol that enum MessageTag has no variant for
\* (CHOKE, HAVE): recv transmutes them all the same
OtherIds == {0, 4}

Min(a, b) == IF a < b THEN a ELSE b

----------------------------------------------------------------------------
(* The torrent *)

HalfBlock == BLOCK_SIZE \div 2

\* Torrent::pieces: one hash per 20 bytes of info.pieces
NumPieces(t) == t.num_hashes

\* spawn: piece_len = min(piece_length, len() - piece * piece_length)
PieceLen(t, piece) ==
    Min(t.piece_length, t.length - piece * t.piece_length)

\* load_piece: (0..piece_len).step_by(BLOCK_SIZE)
BlockOffsets(piece_len) ==
    {o \in 0..(piece_len - 1) : o % BLOCK_SIZE = 0}

\* a block loop that asks for a whole block at every offset
BlockLength_Whole(piece_len, offset) == BLOCK_SIZE

\* load_piece: length = BLOCK_SIZE.min(piece_len - offset)
BlockLength(piece_len, offset) == Min(BLOCK_SIZE, piece_len - offset)

Pieces(t) == 0..(NumPieces(t) - 1)

CeilDiv(a, b) == (a + b - 1) \div b

TotalBlocks(t) ==
    LET RECURSIVE Sum(_)
        Sum(p) == IF p >= NumPieces(t) THEN 0
                  ELSE Cardinality(BlockOffsets(PieceLen(t, p))) + Sum(p + 1)
    IN Sum(0)

\* the torrents of the model: well-formed metainfo (as many hashes as pieces)
\* with pieces of one block or of a block and a half, and a length that is a
\* multiple of half a block (so that last pieces and last blocks are short)
Torrents ==
    {t \in [piece_length : {BLOCK_SIZE, BLOCK_SIZE + HalfBlock},
            length       : {k * HalfBlock : k \in 3..(MaxBlocks + 1)},
            num_hashes   : 1..MaxPieces] :
        /\ t.num_hashes = CeilDiv(t.length, t.piece_length)
        /\ TotalBlocks(t) <= MaxBlocks}

----------------------------------------------------------------------------
(* Data: the content of a buffer is a sequence of units of HalfBlock bytes, *)
(* each unit an integer naming what its bytes are                           *)

Units(bytes) == bytes \div HalfBlock

\* vec![0u8; n]
Zero == 0
\* bytes that belong to no place of the file
Garbage == Zero + 1

\* the bytes of the file in unit u of piece p
TrueUnit(p, u) == 2 + p * (2 * MaxBlocks + 1) + u

\* the bytes of the file in [offset, offset + length) of piece p
TrueData(p, offset, length) ==
    [j \in 1..Units(length) |-> TrueUnit(p, Units(offset) + j - 1)]

Zeros(n) == [j \in 1..n |-> Zero]

\* Sha1::digest: a digest that depends on every unit and on its position
Sha1(data) ==
    LET RECURSIVE Fold(_)
        Fold(n) == IF n = 0 THEN 7
                   ELSE (31 * Fold(n - 1) + data[n] + 1) % 1000003
    IN Fold(Len(data))

\* piece_hashes[piece]: the digest the metainfo holds for the piece
PieceHash(t, p) == Sha1(TrueData(p, 0, PieceLen(t, p)))

\* a copy that does not place the data at start
CopyFromSlice_AtZero(dst, start, data) ==
    [j \in 1..Len(dst) |-> IF j <= Len(data) THEN data[j] ELSE dst[j]]

\* dst[start..end].copy_from_slice(data), start and end in units
CopyFromSlice(dst, start, data) ==
    [j \in 1..Len(dst) |->
        IF j > start /\ j <= start + Len(data) THEN data[j - start] ELSE dst[j]]

----------------------------------------------------------------------------
(* Frames of the wire protocol and Peer::recv *)

\* a frame a peer sends: u32 length, one byte of id, the payload. The payload
\* is kept by its fields: the bits of a BITFIELD, the index, begin and data
\* of a PIECE.
MkFrame(id, bits, index, begin, data) ==
    [length |-> IF id = PIECE THEN 1 + 8 + HalfBlock * Len(data)
                ELSE IF id = BITFIELD THEN 1 + CeilDiv(MaxPieces, 8)
                ELSE 1,
     id |-> id, bits |-> bits, index |-> index, begin |-> begin,
     data |-> data]

\* a frame that carries no payload the model reads
Plain(id) == MkFrame(id, {}, 0, 0, <<>>)

\* a keep-alive: the four bytes of a length prefix of 0 and nothing else
KeepAlive ==
    [length |-> 0, id |-> 0, bits |-> {}, index |-> 0, begin |-> 0,
     data |-> << >>]

\* Peer::recv on a frame: the four bytes of the length, then always one byte
\* of id, then vec![0u8; length as usize - 1] and read_exact of it.
\* For a length of 0 the byte read as the id is the next byte of the stream
\* and length as usize - 1 underflows: the subtraction panics in a build that
\* checks overflow, and otherwise wraps to usize::MAX, of which vec! panics
\* (capacity overflow). Either way the task that called recv panics.
\* unsafe { mem::transmute(buf[0]) } of a byte that is no variant of
\* MessageTag is undefined behaviour. What a build makes of it: the tag
\* keeps the byte and compares unequal to every variant, or the task crashes
\* when the tag is used.
Recv(f) ==
    IF f.length = 0
    THEN {[crash |-> TRUE, msg |-> f]}
    ELSE IF f.id \in MessageTag
    THEN {[crash |-> FALSE, msg |-> f]}
    ELSE {[crash |-> FALSE, msg |-> f], [crash |-> TRUE, msg |-> f]}

\* how download ends when recv did not return on frame f
RecvCrash(f) ==
    IF f.length = 0 THEN "Panic: length underflow"
    ELSE "Crash: invalid MessageTag"

\* the handshake a peer sends back: 68 bytes, of which the model keeps the
\* protocol string and the info hash
\* protocol string, the info hash and, of the reserved bytes, the extension
\* bit (reserved[5] & 0x10)
HandshakeReplies ==
    [protocol : {"BitTorrent protocol", "other protocol"},
     info_hash : {"sent", "other"},
     ext : BOOLEAN]

\* Handshake::new(info_hash, peer_id): reserved: [0; 8]
HandshakeNew ==
    [protocol |-> "BitTorrent protocol", info_hash |-> "sent", ext |-> FALSE]

----------------------------------------------------------------------------
(* State *)

Endpoints == 1..MaxEndpoints
PieceIdx == 0..(MaxPieces - 1)

VARIABLES
    torrent,         \* self: the metainfo
    pc,              \* where Torrent::download is
    result,          \* what download returned: "running" until it does
    peer_addrs,      \* number of endpoints the tracker returned
    cur,             \* loop variable: endpoint in setup, piece in the spawn loop
    handshake_bytes, \* Peer::handshake: the 68 bytes sent, then those read
    sessions,        \* endpoint -> the Peer made for it
    inbound,         \* endpoint -> frames the peer sent after INTERESTED
    peer_piece_map,  \* piece -> sessions holding it ({}: no entry)
    ptask,           \* piece -> its piece task in join_set
    join_set,        \* piece -> number of tasks join_set holds for it
    btask,           \* piece -> offset -> block task of the piece task
    piecebuf,        \* piece -> the buffer `piece` of load_piece
    outstanding,     \* endpoint -> REQUESTs sent on the stream, not answered yet
    closed,          \* endpoint -> the stream failed
    file_bytes,      \* the output buffer
    written,         \* pieces copied into file_bytes
    faults,          \* peer misbehaviours so far
    respawns,        \* piece tasks re-spawned so far
    piece_index,     \* magnet_download_piece: its argument `piece`
    output,          \* magnet_download_piece: the bytes written to the file
    supports_extension, \* endpoint -> the field of the Peer made for it
    extension_sent,  \* endpoints the extended handshake was sent to
    piece_sizes,     \* the piece lengths computed so far, piece by piece
    overflow_checks, \* whether the build checks integer overflow
    blocks           \* load_piece: the block tasks its for loop has spawned

vars == <<torrent, pc, result, peer_addrs, cur, handshake_bytes, sessions,
          inbound,
          peer_piece_map, ptask, join_set, btask, piecebuf, outstanding,
          closed, file_bytes, written, faults, respawns, piece_index, output,
          supports_extension, extension_sent, piece_sizes, overflow_checks,
          blocks>>

setupVars == <<handshake_bytes, sessions, inbound, peer_piece_map>>
taskVars ==
    <<ptask, join_set, btask, piecebuf, outstanding, closed, faults, respawns>>
outVars == <<file_bytes, written>>
\* what the other commands use, and Torrent::download leaves alone
cmdVars ==
    <<piece_index, output, supports_extension, extension_sent, piece_sizes,
      overflow_checks, blocks>>

\* made: Peer::new returned it; interested: the INTERESTED messages sent on
\* it; ready: its readiness exchange has ended with UNCHOKE
NoSession == [made |-> FALSE, interested |-> 0, ready |-> FALSE]
NoTask == [state |-> "idle", peer |-> 0, data |-> <<>>]

\* the state a command starts in: the metainfo is one of ts, the program is
\* at one of ats, the peers have committed f of the faults the model allows,
\* the build checks integer overflow or not, as in checks, and the piece
\* asked for is one of idx
InitWith(ts, ats, f, checks, idx) ==
    /\ torrent \in ts
    /\ pc \in ats
    /\ result = "running"
    /\ peer_addrs = 0
    /\ cur = 0
    /\ handshake_bytes = HandshakeNew
    /\ sessions = [e \in Endpoints |-> NoSession]
    /\ inbound = [e \in Endpoints |-> <<>>]
    /\ peer_piece_map = [p \in PieceIdx |-> {}]
    /\ ptask = [p \in PieceIdx |-> NoTask]
    /\ join_set = [p \in PieceIdx |-> 0]
    /\ btask = [p \in PieceIdx |-> << >>]
    /\ piecebuf = [p \in PieceIdx |-> << >>]
    /\ outstanding = [e \in Endpoints |-> << >>]
    /\ closed = [e \in Endpoints |-> FALSE]
    /\ file_bytes = << >>
    /\ written = {}
    /\ faults = f
    /\ respawns = 0
    /\ piece_index \in idx
    /\ output = << >>
    /\ supports_extension = [e \in Endpoints |-> FALSE]
    /\ extension_sent = {}
    /\ piece_sizes = << >>
    /\ overflow_checks \in checks
    /\ blocks = << >>

\* Torrent::download on a metainfo of Torrents
\* (no piece length of Torrents overflows, so one build stands for both)
Init == InitWith(Torrents, {"tracker"}, 0, {TRUE}, {0})

\* download returns Err(msg)
Fail(msg) ==
    /\ pc' = "done"
    /\ result' = msg

----------------------------------------------------------------------------
(* Setup: torrent.rs 113-138 *)

\* let peer_addrs = self.get_peer_addrs().await?
GetPeerAddrs ==
    /\ pc = "tracker"
    /\ \/ /\ Fail("Err: tracker")
          /\ UNCHANGED <<peer_addrs, cur>>
       \/ \E n \in 0..MaxEndpoints :
            /\ peer_addrs' = n
            /\ cur' = 1
            /\ pc' = IF n = 0 THEN "check" ELSE "new"
            /\ result' = result
    /\ UNCHANGED <<torrent, cmdVars, setupVars, taskVars, outVars>>

\* the for loop moves to the next endpoint, or ends
NextEndpoint ==
    /\ cur' = cur + 1
    /\ pc' = IF cur = peer_addrs THEN "check" ELSE "new"

\* Peer::handshake, to the end of read_exact: connect, write the 68 bytes
\* of Handshake::new, read 68 bytes back into the same buffer
HandshakeExchange ==
    /\ pc = "new"
    /\ \/ \* connect, write_all or read_exact failed: Peer::new returns
          \* Err(e), which the loop of download prints
          /\ NextEndpoint
          /\ handshake_bytes' = HandshakeNew
       \/ \E reply \in HandshakeReplies :
            /\ handshake_bytes' = reply
            /\ pc' = "handshake_read"
            /\ cur' = cur
    /\ UNCHANGED <<torrent, cmdVars, result, peer_addrs, sessions, inbound,
                   peer_piece_map, taskVars, outVars>>

\* Peer::handshake on the bytes read: bincode::deserialize, which takes any
\* 68 bytes, then Ok(Peer { .. }): nothing of the reply is compared with
\* what was sent
HandshakeAccepts(reply) == TRUE

\* Peer::handshake, from bincode::deserialize to its return; Ok(mut peer)
PeerNew ==
    /\ pc = "handshake_read"
    /\ IF HandshakeAccepts(handshake_bytes)
       THEN /\ sessions' = [sessions EXCEPT ![cur].made = TRUE]
            /\ pc' = "get_pieces"
            /\ cur' = cur
       ELSE /\ NextEndpoint
            /\ UNCHANGED sessions
    /\ handshake_bytes' = HandshakeNew
    /\ UNCHANGED <<torrent, cmdVars, result, peer_addrs, inbound, peer_piece_map,
                   taskVars, outVars>>

\* frames a peer may send as its first message
FirstFrames(t) ==
    {MkFrame(BITFIELD, b, 0, 0, <<>>) : b \in SUBSET Pieces(t)}
        \cup {Plain(UNCHOKE), KeepAlive} \cup {Plain(i) : i \in OtherIds}

\* Peer::get_pieces on message msg: ensure!(msg.id == BITFIELD), iter_ones
GetPiecesOk(msg) == msg.id = BITFIELD

\* let pieces = peer.get_pieces().await?; then the entries of peer_piece_map
GetPieces ==
    /\ pc = "get_pieces"
    /\ \/ \* recv failed: the ? returns from download
          /\ Fail("Err: get_pieces")
          /\ UNCHANGED peer_piece_map
       \/ \E f \in FirstFrames(torrent) : \E r \in Recv(f) :
            IF r.crash
            THEN /\ Fail(RecvCrash(f))
                 /\ UNCHANGED peer_piece_map
            ELSE IF GetPiecesOk(r.msg)
            THEN /\ peer_piece_map' =
                        [p \in PieceIdx |->
                            IF p \in r.msg.bits
                            THEN peer_piece_map[p] \cup {cur}
                            ELSE peer_piece_map[p]]
                 /\ pc' = "prepare"
                 /\ result' = result
            ELSE /\ Fail("Err: get_pieces")
                 /\ UNCHANGED peer_piece_map
    /\ UNCHANGED <<torrent, cmdVars, peer_addrs, cur, handshake_bytes, sessions,
                   inbound, taskVars, outVars>>

\* what a peer may send once it has INTERESTED: UNCHOKE, or another frame
\* first
ReadinessReplies ==
    LET others == {Plain(BITFIELD), Plain(INTERESTED), KeepAlive}
                      \cup {Plain(i) : i \in OtherIds}
    IN {<<Plain(UNCHOKE)>>}
           \cup {<<f>> : f \in others}
           \cup {<<f, Plain(UNCHOKE)>> : f \in others}

\* a readiness exchange that takes any frame for UNCHOKE
ReadinessOk_AnyFrame(msg) == TRUE

\* the readiness exchange on the frames fs the peer sends: one recv, then
\* ensure!(msg.id == UNCHOKE)
ReadinessOk(msg) == msg.id = UNCHOKE

\* self.send(interested).await? has returned Ok on the session of cur
SentInterested == [sessions EXCEPT ![cur].interested = @ + 1]

\* peer.prepare_download().await?
PrepareDownload ==
    /\ pc = "prepare"
    /\ \/ \* send failed
          /\ Fail("Err: prepare_download")
          /\ UNCHANGED <<cur, sessions, inbound>>
       \/ \* recv failed
          /\ Fail("Err: prepare_download")
          /\ sessions' = SentInterested
          /\ UNCHANGED <<cur, inbound>>
       \/ \E fs \in ReadinessReplies : \E r \in Recv(Head(fs)) :
            /\ inbound' = [inbound EXCEPT ![cur] = fs]
            /\ IF r.crash
               THEN /\ Fail(RecvCrash(Head(fs)))
                    /\ sessions' = SentInterested
                    /\ cur' = cur
               ELSE IF ReadinessOk(r.msg)
               THEN /\ sessions' = [SentInterested EXCEPT ![cur].ready = TRUE]
                    /\ NextEndpoint
                    /\ result' = result
               ELSE /\ Fail("Err: prepare_download")
                    /\ sessions' = SentInterested
                    /\ cur' = cur
    /\ UNCHANGED <<torrent, cmdVars, peer_addrs, handshake_bytes, peer_piece_map,
                   taskVars, outVars>>

\* if peer_piece_map.is_empty() { return Err(..) }
CheckPeers ==
    /\ pc = "check"
    /\ IF \A p \in PieceIdx : peer_piece_map[p] = {}
       THEN /\ Fail("Err: Could not connect to any peers")
            /\ cur' = cur
       ELSE /\ pc' = "spawn"
            /\ cur' = 0
            /\ result' = result
    /\ UNCHANGED <<torrent, cmdVars, peer_addrs, setupVars, taskVars, outVars>>

----------------------------------------------------------------------------
(* Scheduling: torrent.rs 140-200, peer.rs 115-180 *)

\* choose_peer that draws from every session there is, holder or not
ChoosePeer_AnySession(piece) == {e \in Endpoints : sessions[e].made}

\* choose_peer: peers.choose(&mut rand::thread_rng()) over
\* peer_piece_map.get(&piece): the sessions it may return
ChoosePeer(piece) == peer_piece_map[piece]

\* a spawn that enqueues the task twice
JoinSetSpawn_Twice(js, piece) == [js EXCEPT ![piece] = @ + 2]

\* join_set.spawn(async move { .. }) in spawn: one more task of `piece` in
\* the JoinSet js
JoinSetSpawn(js, piece) == [js EXCEPT ![piece] = @ + 1]

\* join_set.join_next().await yields Some(..) for a task of `piece` that
\* ended: it is in the JoinSet js no more
JoinSetTake(js, piece) == [js EXCEPT ![piece] = @ - 1]

\* a JoinSet that was dropped holds nothing
JoinSetDropped == [p \in PieceIdx |-> 0]

\* a download that returns and leaves its tasks as they are
AbortAll_Detached ==
    /\ UNCHANGED <<ptask, btask>>
    /\ join_set' = JoinSetDropped

\* join_set is dropped when download returns or unwinds: JoinSet::drop
\* aborts every task it holds. abort marks the task and returns: a piece
\* task that is aborted is polled no more, and the runtime drops it later.
\* Its block tasks are in the JoinSet that load_piece holds, which is
\* dropped with the piece task, not before.
AbortAll ==
    /\ ptask' = [p \in PieceIdx |->
                    IF ptask[p].state = "running"
                    THEN [ptask[p] EXCEPT !.state = "cancelling"]
                    ELSE ptask[p]]
    /\ btask' = btask
    /\ join_set' = JoinSetDropped

\* a block task at the start of load_block_with_retry; from and data are
\* of the frame it returned Ok on
NewBlock ==
    [pc |-> "send", attempt |-> 1, requests |-> 0, failures |-> 0,
     slept |-> 0, from |-> << >>, data |-> << >>]

\* spawn: the piece task for `piece` on session s, up to the first
\* join_next of load_piece: the buffer and one block task per offset
SpawnTask(piece, s) ==
    LET piece_len == PieceLen(torrent, piece) IN
    /\ ptask' = [ptask EXCEPT
                    ![piece] = [state |-> "running", peer |-> s, data |-> <<>>]]
    /\ btask' = [btask EXCEPT
                    ![piece] = [o \in BlockOffsets(piece_len) |-> NewBlock]]
    /\ piecebuf' = [piecebuf EXCEPT ![piece] = Zeros(Units(piece_len))]

\* for piece in 0..num_pieces { spawn(&mut join_set, piece) }, then
\* file_bytes = vec![0u8; self.len()]
InitialSpawn ==
    /\ pc = "spawn"
    /\ IF ChoosePeer(cur) = {}
       THEN \* peer_piece_map.get(&piece).unwrap() on None
            /\ Fail("Panic: unwrap on None")
            /\ AbortAll
            /\ UNCHANGED <<cur, piecebuf, file_bytes>>
       ELSE /\ \E s \in ChoosePeer(cur) : SpawnTask(cur, s)
            /\ join_set' = JoinSetSpawn(join_set, cur)
            /\ cur' = cur + 1
            /\ result' = result
            /\ IF cur + 1 = NumPieces(torrent)
               THEN /\ pc' = "join"
                    /\ file_bytes' = Zeros(Units(torrent.length))
               ELSE /\ pc' = "spawn"
                    /\ file_bytes' = file_bytes
    /\ UNCHANGED <<torrent, cmdVars, peer_addrs, setupVars, outstanding, closed,
                   faults, respawns, written>>

\* the block tasks the executor may poll: those of a piece task that runs,
\* and those of a piece task that was aborted and is not dropped yet
Running(p, o) ==
    /\ ptask[p].state \in {"running", "cancelling"}
    /\ o \in DOMAIN btask[p]

\* the guard with <= for <
RetryAgain_OffByOne(attempt) == attempt <= MAX_RETRIES

\* Err(err) if attempt < MAX_RETRIES
RetryAgain(attempt) == attempt < MAX_RETRIES

\* load_block_with_retry when load_block returned Err, in block task b:
\* sleep(RETRY_DELAY) and go round the loop again, or return the error;
\* after the loop, unreachable!()
AttemptFailed(b) ==
    LET f == [b EXCEPT !.failures = b.failures + 1] IN
    IF RetryAgain(b.attempt)
    THEN IF b.attempt + 1 \in 1..MAX_RETRIES
         THEN [f EXCEPT !.attempt = b.attempt + 1, !.slept = b.slept + 1,
                        !.pc = "send"]
         ELSE [f EXCEPT !.slept = b.slept + 1, !.pc = "panicked"]
    ELSE [f EXCEPT !.pc = "err"]

\* whether the stream of session s fails at this operation: it fails from
\* then on (a fault of the peer or of the network)
StreamFails(s) ==
    IF closed[s] THEN {TRUE}
    ELSE IF faults < MaxFaults THEN {FALSE, TRUE} ELSE {FALSE}

\* load_block: self.send(request).await? -- send locks the stream, writes
\* the REQUEST and unlocks
BlockSend(p, o) ==
    /\ Running(p, o)
    /\ btask[p][o].pc = "send"
    /\ LET s == ptask[p].peer
           b == btask[p][o]
           req == [index |-> p, begin |-> o,
                   length |-> BlockLength(PieceLen(torrent, p), o)]
       IN \E fails \in StreamFails(s) :
            IF fails
            THEN \* write_all failed
                 /\ btask' = [btask EXCEPT ![p][o] = AttemptFailed(b)]
                 /\ closed' = [closed EXCEPT ![s] = TRUE]
                 /\ faults' = IF closed[s] THEN faults ELSE faults + 1
                 /\ UNCHANGED outstanding
            ELSE /\ btask' = [btask EXCEPT ![p][o] =
                                  [b EXCEPT !.pc = "recv",
                                            !.requests = b.requests + 1]]
                 /\ outstanding' =
                        [outstanding EXCEPT ![s] = Append(outstanding[s], req)]
                 /\ UNCHANGED <<closed, faults>>
    /\ UNCHANGED <<torrent, cmdVars, pc, result, peer_addrs, cur, setupVars, ptask,
                   join_set, piecebuf, respawns, outVars>>

\* what a peer may send for request req: the data asked for, or (a fault)
\* other bytes, fewer bytes or more bytes
Replies(req) ==
    LET good == TrueData(req.index, req.begin, req.length)
        bad == {[j \in 1..Len(good) |-> Garbage],
                SubSeq(good, 1, Len(good) - 1),
                Append(good, Garbage)}
    IN {MkFrame(PIECE, {}, req.index, req.begin, good)}
           \cup (IF faults < MaxFaults
                 THEN {MkFrame(PIECE, {}, req.index, req.begin, d) : d \in bad}
                 ELSE {})

\* frames a peer may send that answer no request (a fault)
Unsolicited ==
    IF faults < MaxFaults
    THEN {Plain(UNCHOKE), KeepAlive} \cup {Plain(i) : i \in OtherIds}
    ELSE {}

\* load_block: ensure!(msg.id == PIECE)
LoadBlockOk(msg) == msg.id = PIECE

\* load_block_with_retry: Ok(msg) => return Ok((offset, msg.payload[8..]))
BlockResult(offset, msg) == [offset |-> offset, data |-> msg.data]

\* load_block: let msg = self.recv().await? -- recv locks the stream, reads
\* one frame and unlocks; then the result of the attempt, and for a block
\* that is done the copy of load_piece's join loop
BlockRecv(p, o) ==
    /\ Running(p, o)
    /\ btask[p][o].pc = "recv"
    /\ LET s == ptask[p].peer
           b == btask[p][o]
       IN \E fails \in StreamFails(s) :
          IF fails
          THEN \* read_exact failed
               /\ btask' = [btask EXCEPT ![p][o] = AttemptFailed(b)]
               /\ closed' = [closed EXCEPT ![s] = TRUE]
               /\ faults' = IF closed[s] THEN faults ELSE faults + 1
               /\ UNCHANGED <<outstanding, piecebuf, ptask>>
          ELSE \E answered \in BOOLEAN :
               \E f \in (IF answered
                         THEN (IF outstanding[s] = << >> THEN {}
                               ELSE Replies(Head(outstanding[s])))
                         ELSE Unsolicited) :
               \E r \in Recv(f) :
                 /\ outstanding' =
                        [outstanding EXCEPT
                            ![s] = IF answered THEN Tail(@) ELSE @]
                 /\ closed' = closed
                 /\ faults' =
                        IF answered /\
                           f.data = TrueData(f.index, f.begin,
                                             Head(outstanding[s]).length)
                        THEN faults ELSE faults + 1
                 /\ IF r.crash
                    THEN /\ btask' = [btask EXCEPT ![p][o].pc = "panicked"]
                         /\ UNCHANGED <<piecebuf, ptask>>
                    ELSE IF ~LoadBlockOk(r.msg)
                    THEN /\ btask' = [btask EXCEPT ![p][o] = AttemptFailed(b)]
                         /\ UNCHANGED <<piecebuf, ptask>>
                    ELSE LET res == BlockResult(o, r.msg)
                             start == Units(res.offset)
                         IN /\ btask' =
                                  [btask EXCEPT ![p][o] =
                                      [b EXCEPT !.pc = "done",
                                                !.from = <<r.msg.index,
                                                           r.msg.begin>>,
                                                !.data = res.data]]
                            /\ IF ptask[p].state # "running"
                               THEN \* load_piece is polled no more
                                    UNCHANGED <<piecebuf, ptask>>
                               ELSE IF start + Len(res.data) > Len(piecebuf[p])
                               THEN \* piece[start..end]: out of range
                                    /\ ptask' = [ptask EXCEPT
                                                   ![p].state = "panicked"]
                                    /\ UNCHANGED piecebuf
                               ELSE /\ piecebuf' =
                                        [piecebuf EXCEPT ![p] =
                                            CopyFromSlice(@, start, res.data)]
                                    /\ UNCHANGED ptask
    /\ UNCHANGED <<torrent, cmdVars, pc, result, peer_addrs, cur, setupVars,
                   join_set, respawns, outVars>>

\* a piece task that returns the data without comparing digests
Verify_Unchecked(piece, data) == data

\* the piece task: if piece_hashes[piece] != Sha1::digest(&data)
\*   { (piece, vec![]) } else { (piece, data) }
Verify(piece, data) ==
    IF PieceHash(torrent, piece) # Sha1(data) THEN << >> ELSE data

\* load_piece returns Ok(piece) when every block task is joined; the piece
\* task verifies it and ends
PieceDone(p) ==
    /\ pc \in {"spawn", "join"}
    /\ ptask[p].state = "running"
    /\ \A o \in DOMAIN btask[p] : btask[p][o].pc = "done"
    /\ ptask' = [ptask EXCEPT ![p].state = "finished",
                              ![p].data = Verify(p, piecebuf[p])]
    /\ UNCHANGED <<torrent, cmdVars, pc, result, peer_addrs, cur, setupVars, btask,
                   join_set, piecebuf, outstanding, closed, faults, respawns,
                   outVars>>

\* load_piece returns Err when join_next yields a block task that failed or
\* panicked: its JoinSet is dropped, which aborts the other block tasks;
\* the piece task ends with (piece, vec![])
PieceFail(p) ==
    /\ pc \in {"spawn", "join"}
    /\ ptask[p].state = "running"
    /\ \E o \in DOMAIN btask[p] : btask[p][o].pc \in {"err", "panicked"}
    /\ ptask' = [ptask EXCEPT ![p].state = "finished", ![p].data = << >>]
    /\ btask' = [btask EXCEPT ![p] =
                    [o \in DOMAIN @ |->
                        IF @[o].pc \in {"send", "recv"}
                        THEN [@[o] EXCEPT !.pc = "aborted"] ELSE @[o]]]
    /\ UNCHANGED <<torrent, cmdVars, pc, result, peer_addrs, cur, setupVars,
                   join_set, piecebuf, outstanding, closed, faults, respawns,
                   outVars>>

\* the runtime drops a piece task that was aborted: the JoinSet of its
\* load_piece is dropped with it, which aborts its block tasks
TaskCancelled(p) ==
    /\ ptask[p].state = "cancelling"
    /\ ptask' = [ptask EXCEPT ![p].state = "aborted"]
    /\ btask' = [btask EXCEPT ![p] =
                    [o \in DOMAIN @ |->
                        IF @[o].pc \in {"send", "recv"}
                        THEN [@[o] EXCEPT !.pc = "aborted"] ELSE @[o]]]
    /\ UNCHANGED <<torrent, cmdVars, pc, result, peer_addrs, cur, setupVars,
                   join_set, piecebuf, outstanding, closed, faults, respawns,
                   outVars>>

\* the tasks join_set holds: spawned and not joined yet
InJoinSet(p) == join_set[p] > 0

\* a join loop that never re-spawns
DataIsEmpty_Never(data) == FALSE

\* if data.is_empty()
DataIsEmpty(data) == data = << >>

\* while let Some(join_result) = join_set.join_next().await: one round of
\* the loop, on the piece task that ended
JoinNext(p) ==
    /\ pc = "join"
    /\ ptask[p].state \in {"finished", "panicked"}
    /\ IF ptask[p].state = "panicked"
       THEN \* join_result.context("Task panicked")?
            /\ Fail("Err: Task panicked")
            /\ AbortAll
            /\ UNCHANGED <<piecebuf, respawns, file_bytes, written>>
       ELSE IF DataIsEmpty(ptask[p].data)
       THEN \* spawn(&mut join_set, piece)
            /\ respawns < MaxRespawns
            /\ \E s \in ChoosePeer(p) : SpawnTask(p, s)
            /\ join_set' = JoinSetSpawn(JoinSetTake(join_set, p), p)
            /\ respawns' = respawns + 1
            /\ UNCHANGED <<pc, result, file_bytes, written>>
       ELSE LET start == p * Units(torrent.piece_length)
            IN IF start + Len(ptask[p].data) > Len(file_bytes)
               THEN \* file_bytes[start..end]: out of range
                    /\ Fail("Panic: range end out of bounds")
                    /\ AbortAll
                    /\ UNCHANGED <<piecebuf, respawns, file_bytes,
                                   written>>
               ELSE /\ file_bytes' =
                          CopyFromSlice(file_bytes, start, ptask[p].data)
                    /\ written' = written \cup {p}
                    /\ ptask' = [ptask EXCEPT ![p].state = "joined"]
                    /\ join_set' = JoinSetTake(join_set, p)
                    /\ UNCHANGED <<pc, result, btask, piecebuf, respawns>>
    /\ UNCHANGED <<torrent, cmdVars, peer_addrs, cur, setupVars, outstanding, closed,
                   faults>>

\* join_next returns None: Ok(file_bytes)
Return ==
    /\ pc = "join"
    /\ \A p \in PieceIdx : ~InJoinSet(p)
    /\ pc' = "done"
    /\ result' = "Ok"
    /\ UNCHANGED <<torrent, cmdVars, peer_addrs, cur, setupVars, taskVars, outVars>>

\* the steps of the tasks the executor runs, one task at a time
BlockSendStep ==
    \E p \in PieceIdx : \E o \in DOMAIN btask[p] : BlockSend(p, o)

BlockRecvStep ==
    \E p \in PieceIdx : \E o \in DOMAIN btask[p] : BlockRecv(p, o)

PieceDoneStep == \E p \in PieceIdx : PieceDone(p)

PieceFailStep == \E p \in PieceIdx : PieceFail(p)

JoinNextStep == \E p \in PieceIdx : JoinNext(p)

TaskCancelledStep == \E p \in PieceIdx : TaskCancelled(p)

Next ==
    \/ GetPeerAddrs
    \/ HandshakeExchange
    \/ PeerNew
    \/ GetPieces
    \/ PrepareDownload
    \/ CheckPeers
    \/ InitialSpawn
    \/ BlockSendStep
    \/ BlockRecvStep
    \/ PieceDoneStep
    \/ PieceFailStep
    \/ JoinNextStep
    \/ TaskCancelledStep
    \/ Return

Spec == Init /\ [][Next]_vars

----------------------------------------------------------------------------
(* The magnet commands: magnet_download_piece (main.rs 175-206) and        *)
(* Magnet::handshake (magnet.rs 62-77). Peer::new is Peer::handshake, as   *)
(* for download. Of the Peer they use, peer.rs has neither the field       *)
(* supports_extension nor extension_handshake and extension_metadata:      *)
(* these are as the specification of the session describes them.           *)

\* magnet.get_peer_addrs().await?, at `at`; the loop starts at `new`
MagnetGetPeerAddrs(at, new) ==
    /\ pc = at
    /\ \/ /\ Fail("Err: tracker")
          /\ UNCHANGED <<peer_addrs, cur>>
       \/ \E n \in 0..MaxEndpoints :
            /\ peer_addrs' = n
            /\ cur' = 1
            /\ IF n = 0
               THEN Fail("Err: Could not find peer")
               ELSE /\ pc' = new
                    /\ result' = result
    /\ UNCHANGED <<torrent, cmdVars, setupVars, taskVars, outVars>>

\* the for loop moves to the next endpoint, at `new`, or ends:
\* Err(anyhow!("Could not find peer"))
MagnetNextEndpoint(new) ==
    /\ cur' = cur + 1
    /\ IF cur = peer_addrs
       THEN Fail("Err: Could not find peer")
       ELSE /\ pc' = new
            /\ result' = result

\* the field supports_extension of the Peer made from handshake reply
\* `reply`: reserved[5] & 0x10 of the reply
SupportsExtension(reply) == reply.ext

\* match Peer::new(peer_address, magnet.info_hash).await, at `new`: the
\* handshake of Handshake::new is sent and 68 bytes are read back; Ok goes
\* on at ok_ext if the peer supports the extension and at ok_plain if not,
\* Err(e) is printed
MagnetPeerNew(new, ok_ext, ok_plain) ==
    /\ pc = new
    /\ \/ /\ MagnetNextEndpoint(new)
          /\ UNCHANGED <<sessions, supports_extension>>
       \/ \E reply \in HandshakeReplies :
            /\ HandshakeAccepts(reply)
            /\ sessions' = [sessions EXCEPT ![cur].made = TRUE]
            /\ supports_extension' =
                   [supports_extension EXCEPT ![cur] = SupportsExtension(reply)]
            /\ pc' = IF SupportsExtension(reply) THEN ok_ext ELSE ok_plain
            /\ UNCHANGED <<cur, result>>
    /\ UNCHANGED <<torrent, peer_addrs, handshake_bytes, inbound,
                   peer_piece_map, taskVars, outVars, piece_index, output,
                   extension_sent, piece_sizes, overflow_checks, blocks>>

\* peer.get_pieces().await?, at `at`: Ok(pieces) goes on at ok, or, where
\* the caller asks for it (anyPieces is FALSE), at ok only
\* if pieces.contains(&piece) && peer.supports_extension, and else at the
\* next endpoint, at `new`
MagnetGetPieces(at, new, ok, anyPieces) ==
    /\ pc = at
    /\ \/ /\ Fail("Err: get_pieces")
          /\ cur' = cur
       \/ \E f \in FirstFrames(torrent) : \E r \in Recv(f) :
            IF r.crash
            THEN /\ Fail(RecvCrash(f))
                 /\ cur' = cur
            ELSE IF GetPiecesOk(r.msg)
            THEN IF anyPieces
                    \/ (piece_index \in r.msg.bits /\ supports_extension[cur])
                 THEN /\ pc' = ok
                      /\ UNCHANGED <<cur, result>>
                 ELSE MagnetNextEndpoint(new)
            ELSE /\ Fail("Err: get_pieces")
                 /\ cur' = cur
    /\ UNCHANGED <<torrent, cmdVars, peer_addrs, setupVars, taskVars,
                   outVars>>

\* peer.extension_handshake().await?, at `at`: the EXTENDED message of
\* extension id 0 is sent, then the peer's is awaited
ExtensionHandshake(at, ok) ==
    /\ pc = at
    /\ \/ \* send failed
          /\ Fail("Err: extension_handshake")
          /\ UNCHANGED extension_sent
       \/ /\ extension_sent' = extension_sent \cup {cur}
          /\ \/ Fail("Err: extension_handshake")
             \/ /\ pc' = ok
                /\ result' = result
    /\ UNCHANGED <<torrent, peer_addrs, cur, setupVars, taskVars, outVars,
                   piece_index, output, supports_extension, piece_sizes,
                   overflow_checks, blocks>>

\* magnet_download_piece: let peer_addrs = magnet.get_peer_addrs().await?
MdpGetPeerAddrs == MagnetGetPeerAddrs("mdp_tracker", "mdp_new")

\* magnet_download_piece: match Peer::new(..).await
MdpPeerNew == MagnetPeerNew("mdp_new", "mdp_get_pieces", "mdp_get_pieces")

\* magnet_download_piece: let pieces = peer.get_pieces().await?;
\* if pieces.contains(&piece) && peer.supports_extension { .. }
MdpGetPieces ==
    MagnetGetPieces("mdp_get_pieces", "mdp_new", "mdp_extension_handshake",
                    FALSE)

\* magnet_download_piece: peer.extension_handshake().await?
MdpExtensionHandshake ==
    ExtensionHandshake("mdp_extension_handshake", "mdp_extension_metadata")

\* magnet_download_piece: let metadata = peer.extension_metadata().await?
\* (the metadata of the torrent), then piece_len
MdpExtensionMetadata ==
    /\ pc = "mdp_extension_metadata"
    /\ \/ Fail("Err: extension_metadata")
       \/ /\ pc' = "mdp_prepare"
          /\ result' = result
    /\ UNCHANGED <<torrent, cmdVars, peer_addrs, cur, setupVars, taskVars,
                   outVars>>

\* magnet_download_piece: peer.prepare_download().await?, then load_piece
\* up to its first join_next
MdpPrepareDownload ==
    /\ pc = "mdp_prepare"
    /\ \/ \* send failed
          /\ Fail("Err: prepare_download")
          /\ UNCHANGED <<sessions, inbound, ptask, btask, piecebuf>>
       \/ \* recv failed
          /\ Fail("Err: prepare_download")
          /\ sessions' = SentInterested
          /\ UNCHANGED <<inbound, ptask, btask, piecebuf>>
       \/ \E fs \in ReadinessReplies : \E r \in Recv(Head(fs)) :
            /\ inbound' = [inbound EXCEPT ![cur] = fs]
            /\ IF r.crash
               THEN /\ Fail(RecvCrash(Head(fs)))
                    /\ sessions' = SentInterested
                    /\ UNCHANGED <<ptask, btask, piecebuf>>
               ELSE IF ReadinessOk(r.msg)
               THEN /\ sessions' = [SentInterested EXCEPT ![cur].ready = TRUE]
                    /\ SpawnTask(piece_index, cur)
                    /\ pc' = "mdp_load_piece"
                    /\ result' = result
               ELSE /\ Fail("Err: prepare_download")
                    /\ sessions' = SentInterested
                    /\ UNCHANGED <<ptask, btask, piecebuf>>
    /\ UNCHANGED <<torrent, cmdVars, peer_addrs, cur, handshake_bytes,
                   peer_piece_map, join_set, outstanding, closed, faults,
                   respawns, outVars>>

\* magnet_download_piece: let piece_data = peer.load_piece(..).await? when
\* load_piece returns Ok(piece); File::create(output), write_all(&piece_data)
\* and return Ok(())
MdpWrite ==
    /\ pc = "mdp_load_piece"
    /\ ptask[piece_index].state = "running"
    /\ \A o \in DOMAIN btask[piece_index] :
          btask[piece_index][o].pc = "done"
    /\ ptask' = [ptask EXCEPT ![piece_index].state = "joined",
                              ![piece_index].data = piecebuf[piece_index]]
    /\ \/ /\ Fail("Err: write")
          /\ UNCHANGED output
       \/ /\ output' = piecebuf[piece_index]
          /\ pc' = "done"
          /\ result' = "Ok"
    /\ UNCHANGED <<torrent, peer_addrs, cur, setupVars, btask, piecebuf,
                   join_set, outstanding, closed, faults, respawns, outVars,
                   piece_index, supports_extension, extension_sent,
                   piece_sizes, overflow_checks, blocks>>

\* magnet_download_piece: load_piece returns Err (a block task failed or
\* panicked; its JoinSet is dropped) and the ? returns it, or load_piece
\* panics at piece[start..end]
MdpLoadPieceErr ==
    /\ pc = "mdp_load_piece"
    /\ \/ /\ ptask[piece_index].state = "running"
          /\ \E o \in DOMAIN btask[piece_index] :
                btask[piece_index][o].pc \in {"err", "panicked"}
          /\ Fail("Err: load_piece")
          /\ ptask' = [ptask EXCEPT ![piece_index].state = "finished"]
          /\ btask' = [btask EXCEPT ![piece_index] =
                          [o \in DOMAIN @ |->
                              IF @[o].pc \in {"send", "recv"}
                              THEN [@[o] EXCEPT !.pc = "aborted"] ELSE @[o]]]
       \/ /\ ptask[piece_index].state = "panicked"
          /\ Fail("Panic: range end out of bounds")
          /\ UNCHANGED <<ptask, btask>>
    /\ UNCHANGED <<torrent, cmdVars, peer_addrs, cur, setupVars, piecebuf,
                   join_set, outstanding, closed, faults, respawns, outVars>>

\* Magnet::handshake: let peer_addrs = self.get_peer_addrs().await?
MhGetPeerAddrs == MagnetGetPeerAddrs("mh_tracker", "mh_new")

\* Magnet::handshake: match Peer::new(..).await;
\* if peer.supports_extension { .. } return Ok(peer)
MhPeerNew == MagnetPeerNew("mh_new", "mh_get_pieces", "mh_return")

\* Magnet::handshake: peer.get_pieces().await?
MhGetPieces ==
    MagnetGetPieces("mh_get_pieces", "mh_new", "mh_extension_handshake", TRUE)

\* Magnet::handshake: peer.extension_handshake().await?
MhExtensionHandshake ==
    ExtensionHandshake("mh_extension_handshake", "mh_return")

\* Magnet::handshake: return Ok(peer)
MhReturn ==
    /\ pc = "mh_return"
    /\ pc' = "done"
    /\ result' = "Ok"
    /\ UNCHANGED <<torrent, cmdVars, peer_addrs, cur, setupVars, taskVars,
                   outVars>>

\* either command, for a piece that the torrent has or has not
InitMagnet ==
    InitWith(Torrents, {"mdp_tracker", "mh_tracker"}, 0, {TRUE}, PieceIdx)

NextMagnet ==
    \/ MdpGetPeerAddrs
    \/ MdpPeerNew
    \/ MdpGetPieces
    \/ MdpExtensionHandshake
    \/ MdpExtensionMetadata
    \/ MdpPrepareDownload
    \/ BlockSendStep
    \/ BlockRecvStep
    \/ MdpWrite
    \/ MdpLoadPieceErr
    \/ MhGetPeerAddrs
    \/ MhPeerNew
    \/ MhGetPieces
    \/ MhExtensionHandshake
    \/ MhReturn

SpecMagnet == InitMagnet /\ [][NextMagnet]_vars

----------------------------------------------------------------------------
(* The piece lengths of a metainfo: torrent.rs 73-79, 150-153, 183-185 *)

\* hashes of the largest metainfo of Metainfos
MaxHashes == 5

\* 2^32 in units of HalfBlock (u32: piece_length, length, piece as u32)
U32Units == 524288

\* Torrent::new takes every metainfo that decodes: the number of hashes
\* (info.pieces.chunks_exact(20)) need not be the number of pieces that
\* length and piece_length make. Lengths are multiples of HalfBlock, up to
\* a piece length of 2^30 and a length of 2^31 - HalfBlock. The metainfos
\* here have a hash for every piece of the file, and as many more as
\* MaxHashes allows.
Metainfos ==
    {t \in [piece_length : {BLOCK_SIZE, BLOCK_SIZE + HalfBlock,
                            131072 * HalfBlock},
            length       : {k * HalfBlock : k \in 1..6}
                               \cup {262143 * HalfBlock},
            num_hashes   : 1..MaxHashes] :
        t.num_hashes >= CeilDiv(Units(t.length), Units(t.piece_length))}

\* the u32 the build leaves for a value v that is out of range, v in units
\* of HalfBlock (2^32 is a multiple of HalfBlock, so wrapping is the same in
\* units): none (-1: the operation panics) when the build checks overflow,
\* v modulo 2^32 otherwise
WrapU32(v, checks) ==
    IF v >= 0 /\ v < U32Units THEN v
    ELSE IF checks THEN -1
    ELSE v % U32Units

\* std::cmp::min(torrent.info.piece_length,
\*               torrent.len() - piece as u32 * torrent.info.piece_length)
\* in u32, in bytes; -1 stands for a panic
PieceLenU32(t, i, checks) ==
    LET prod == WrapU32(i * Units(t.piece_length), checks)
        diff == IF prod < 0 THEN -1
                ELSE WrapU32(Units(t.length) - prod, checks)
    IN IF diff < 0 THEN -1
       ELSE HalfBlock * Min(Units(t.piece_length), diff)

InitSizes == InitWith(Metainfos, {"piece_len"}, 0, BOOLEAN, {0})

\* spawn computes piece_len for the next piece of 0..num_pieces
PieceLenStep ==
    /\ pc = "piece_len"
    /\ Len(piece_sizes) < torrent.num_hashes
    /\ LET piece_len ==
               PieceLenU32(torrent, Len(piece_sizes), overflow_checks)
       IN IF piece_len < 0
          THEN /\ Fail("Panic: arithmetic overflow")
               /\ UNCHANGED piece_sizes
          ELSE /\ piece_sizes' = Append(piece_sizes, piece_len)
               /\ UNCHANGED <<pc, result>>
    /\ UNCHANGED <<torrent, peer_addrs, cur, setupVars, taskVars, outVars,
                   piece_index, output, supports_extension, extension_sent,
                   overflow_checks, blocks>>

\* the loop over 0..num_pieces has ended
PieceLenDone ==
    /\ pc = "piece_len"
    /\ Len(piece_sizes) = torrent.num_hashes
    /\ pc' = "done"
    /\ result' = "Ok"
    /\ UNCHANGED <<torrent, cmdVars, peer_addrs, cur, setupVars, taskVars,
                   outVars>>

NextSizes == PieceLenStep \/ PieceLenDone

SpecSizes == InitSizes /\ [][NextSizes]_vars

----------------------------------------------------------------------------
(* Torrent::download on a piece of many blocks, with peers that unchoke and *)
(* then leave every REQUEST unanswered                                      *)

\* blocks of the piece
MaxInFlight == 6

\* #[tokio::main(worker_threads = 5)]
WORKER_THREADS == 5

\* a metainfo of one piece of MaxInFlight blocks
LongPieces ==
    {[piece_length |-> MaxInFlight * BLOCK_SIZE,
      length |-> MaxInFlight * BLOCK_SIZE, num_hashes |-> 1]}

\* the peers commit no fault: no stream fails
InitRequests == InitWith(LongPieces, {"tracker"}, MaxFaults, {TRUE}, {0})

\* the steps of download up to the REQUESTs of the block tasks; no reply
\* arrives, so that no recv returns
NextRequests ==
    \/ GetPeerAddrs
    \/ HandshakeExchange
    \/ PeerNew
    \/ GetPieces
    \/ PrepareDownload
    \/ CheckPeers
    \/ InitialSpawn
    \/ BlockSendStep

SpecRequests == InitRequests /\ [][NextRequests]_vars

----------------------------------------------------------------------------
(* The block loop of load_piece on one piece, for piece lengths of every    *)
(* residue modulo BLOCK_SIZE: peer.rs 115-122                               *)

\* blocks of the longest piece of PieceLens
MaxPieceBlocks == 4

\* piece lengths in bytes: the residues 1, 2, half a block and one less and
\* one more, one less than a block, and a whole block, after 0 to
\* MaxPieceBlocks - 1 whole blocks
PieceLens ==
    {k * BLOCK_SIZE + d :
        k \in 0..(MaxPieceBlocks - 1),
        d \in {1, 2, HalfBlock - 1, HalfBlock, HalfBlock + 1, BLOCK_SIZE - 1,
               BLOCK_SIZE}}

\* a metainfo of one piece of L bytes
OnePiece ==
    {[piece_length |-> L, length |-> L, num_hashes |-> 1] : L \in PieceLens}

InitBlocks == InitWith(OnePiece, {"block_loop"}, 0, {TRUE}, {0})

\* (0..piece_len).step_by(BLOCK_SIZE): the offset the iterator is at after
\* the blocks in bs
NextOffset(bs) ==
    IF bs = << >> THEN 0 ELSE bs[Len(bs)].offset + BLOCK_SIZE

\* one round of for offset in (0..piece_len).step_by(BLOCK_SIZE):
\* length = BLOCK_SIZE.min(piece_len - offset) and the block task spawned
LoadPieceSpawnBlock ==
    /\ pc = "block_loop"
    /\ LET piece_len == PieceLen(torrent, 0)
           offset == NextOffset(blocks)
       IN /\ offset < piece_len
          /\ blocks' = Append(blocks,
                              [offset |-> offset,
                               length |-> BlockLength(piece_len, offset)])
    /\ UNCHANGED <<torrent, pc, result, peer_addrs, cur, setupVars, taskVars,
                   outVars, piece_index, output, supports_extension,
                   extension_sent, piece_sizes, overflow_checks>>

\* the iterator is exhausted: the for loop ends
LoadPieceLoopEnd ==
    /\ pc = "block_loop"
    /\ NextOffset(blocks) >= PieceLen(torrent, 0)
    /\ pc' = "done"
    /\ result' = "Ok"
    /\ UNCHANGED <<torrent, cmdVars, peer_addrs, cur, setupVars, taskVars,
                   outVars>>

NextBlocks == LoadPieceSpawnBlock \/ LoadPieceLoopEnd

SpecBlocks == InitBlocks /\ [][NextBlocks]_vars

\* The executor polls every task that is ready, so a step that needs nothing
\* from the network is taken if it stays enabled. The steps that read from a
\* peer or from the tracker (GetPeerAddrs, HandshakeExchange, GetPieces,
\* PrepareDownload, BlockRecvStep) wait for bytes to arrive: recv is
\* read_exact on the stream with nothing that ends it, so the model asks
\* no fairness of them (a peer may stay silent).
FairSpec ==
    /\ Spec
    /\ WF_vars(PeerNew)
    /\ WF_vars(CheckPeers)
    /\ WF_vars(InitialSpawn)
    /\ WF_vars(BlockSendStep)
    /\ WF_vars(PieceDoneStep)
    /\ WF_vars(PieceFailStep)
    /\ WF_vars(JoinNextStep)
    /\ WF_vars(TaskCancelledStep)
    /\ WF_vars(Return)

----------------------------------------------------------------------------
(* Properties *)

\* the region of file_bytes that belongs to piece p
Region(p) ==
    SubSeq(file_bytes, p * Units(torrent.piece_length) + 1,
           p * Units(torrent.piece_length) + Units(PieceLen(torrent, p)))

\* the block tasks there are, each <<piece, offset>>
BlockTasks == UNION {{<<p, o>> : o \in DOMAIN btask[p]} : p \in PieceIdx}

\* C1: every piece region of file_bytes that has been written holds data
\* whose SHA-1 equals the hash of that piece, whatever the peers sent
C1_WrittenPiecesVerified ==
    \A p \in written : Sha1(Region(p)) = PieceHash(torrent, p)

\* a piece was written after an earlier task for a piece had failed
C1_Witness ==
    /\ written # {}
    /\ respawns > 0
    /\ faults > 0

\* C2: download returns Ok only when every piece has been verified and
\* written, and no piece task is left in the join set
C2_OkMeansAllWritten ==
    result = "Ok" =>
        \A p \in Pieces(torrent) :
            /\ p \in written
            /\ ~InJoinSet(p)
            /\ Sha1(Region(p)) = PieceHash(torrent, p)

\* download returned Ok after a piece had to be re-spawned
C2_Witness ==
    /\ result = "Ok"
    /\ respawns > 0

\* the tasks that have sent a REQUEST on session e and not read a reply yet
Awaiting(e) ==
    {t \in BlockTasks :
        /\ ptask[t[1]].state = "running"
        /\ ptask[t[1]].peer = e
        /\ btask[t[1]][t[2]].pc = "recv"}

\* C3: at most one task at a time is between its REQUEST and its reply on a
\* session (the exchange holds the stream exclusively)
C3_ExclusiveExchange ==
    \A e \in Endpoints : Cardinality(Awaiting(e)) <= 1

\* C4: a block task returns data only from a PIECE frame whose index and
\* begin are those it asked for
C4_ReplyMatchesRequest ==
    \A t \in BlockTasks :
        btask[t[1]][t[2]].pc = "done" => btask[t[1]][t[2]].from = t

\* C5: when some piece has no holder after setup, no piece task is ever
\* spawned and download does not panic
C5_NoHolderFailsBeforeScheduling ==
    (\E p \in Pieces(torrent) : peer_piece_map[p] = {}) =>
        /\ \A q \in PieceIdx : ptask[q].state = "idle"
        /\ result # "Panic: unwrap on None"

\* C6: a failed bitfield read of one endpoint does not end the download, and
\* the no-peers error is returned only when no endpoint yielded a session
C6_SetupFailuresSkipped ==
    /\ result # "Err: get_pieces"
    /\ result = "Err: Could not connect to any peers" =>
           \A e \in Endpoints : ~sessions[e].made

\* C7: a block task issues at most MAX_RETRIES requests, sleeps after every
\* failed attempt but the last, ends with the data as soon as an attempt
\* succeeds, and returns an error exactly when MAX_RETRIES attempts failed
C7_RetryPolicy ==
    \A t \in BlockTasks :
        LET b == btask[t[1]][t[2]] IN
        /\ b.requests <= MAX_RETRIES
        /\ b.attempt <= MAX_RETRIES
        /\ b.failures <= MAX_RETRIES
        /\ (b.pc = "err") <=> (b.failures = MAX_RETRIES)
        /\ b.pc = "done" => b.requests = b.failures + 1
        /\ b.pc \in {"send", "recv", "done", "aborted"} =>
               b.attempt = b.failures + 1
        /\ b.slept = Min(b.failures, MAX_RETRIES - 1)

\* a block task returned an error after MAX_RETRIES failed attempts, the
\* first of which had sent its REQUEST
C7_Witness ==
    \E t \in BlockTasks :
        /\ btask[t[1]][t[2]].pc = "err"
        /\ btask[t[1]][t[2]].failures = MAX_RETRIES
        /\ btask[t[1]][t[2]].requests >= 1

\* the piece task of p has ended in a piece-level failure
PieceFailed(p) == ptask[p].state = "finished" /\ DataIsEmpty(ptask[p].data)

C9_HandshakeEcho ==
    [][\A e \in Endpoints :
          (~sessions[e].made /\ sessions'[e].made) =>
              /\ handshake_bytes.protocol = HandshakeNew.protocol
              /\ handshake_bytes.info_hash = HandshakeNew.info_hash]_vars

\* the frames fs are non-UNCHOKE frames followed by one UNCHOKE
UnchokeLast(fs) ==
    /\ fs # << >>
    /\ fs[Len(fs)].id = UNCHOKE
    /\ \A j \in 1..(Len(fs) - 1) : fs[j].id # UNCHOKE

\* C10: the readiness step succeeds on every sequence of non-UNCHOKE frames
\* that ends with UNCHOKE
C10_ReadinessIgnoresOthers ==
    \A e \in Endpoints : UnchokeLast(inbound[e]) => sessions[e].ready

\* a step in which a task reads a frame that answers no request: every such
\* frame of the model is a frame other than PIECE
NonPieceRead ==
    /\ faults' = faults + 1
    /\ closed' = closed
    /\ outstanding' = outstanding

\* C11: a frame other than PIECE read by a block task that waits for its
\* reply is ignored: no attempt fails, no REQUEST is sent again and the task
\* that read it goes on waiting
C11_NonPieceIgnored ==
    [][NonPieceRead =>
          \A p \in PieceIdx : \A o \in DOMAIN btask[p] :
              /\ btask'[p][o].failures = btask[p][o].failures
              /\ btask'[p][o].attempt = btask[p][o].attempt
              /\ btask[p][o].pc = "recv" => btask'[p][o].pc = "recv"]_vars

\* C12: a keep-alive is skipped by recv: no task panics on it, and the frame
\* that follows it is read as a frame of its own (an UNCHOKE that follows a
\* keep-alive ends the readiness exchange)
C12_KeepAliveIgnored ==
    /\ result # RecvCrash(KeepAlive)
    /\ \A e \in Endpoints :
           (inbound[e] = <<KeepAlive, Plain(UNCHOKE)>>) => sessions[e].ready

\* C16 as stated: once download has returned, no block task sends or
\* receives (a task changes only by being aborted), and once load_piece has
\* ended in an error none of its block tasks does
C16_NoStepAfterReturn ==
    [][\A p \in PieceIdx :
          (pc = "done" \/ (PieceFailed(p) /\ ptask'[p] = ptask[p])) =>
              \A o \in DOMAIN btask[p] :
                  \/ btask'[p][o] = btask[p][o]
                  \/ btask'[p][o].pc = "aborted"]_vars

\* C16, amended: as download returns every piece task left is aborted; an
\* aborted piece task takes no further step (its buffer and its result stay)
\* and is not revived; the block tasks of a piece task that was dropped, and
\* those of a load_piece that ended in an error, take no further step
C16_AbortedOnReturn ==
    [][/\ pc' = "done" => \A p \in PieceIdx : ptask'[p].state # "running"
       /\ \A p \in PieceIdx :
            /\ ptask[p].state \in {"cancelling", "aborted"} =>
                  /\ ptask'[p].state \in {"cancelling", "aborted"}
                  /\ ptask'[p].data = ptask[p].data
                  /\ piecebuf'[p] = piecebuf[p]
            /\ (ptask[p].state = "aborted"
                    \/ (PieceFailed(p) /\ ptask'[p] = ptask[p])) =>
                  btask'[p] = btask[p]]_vars

\* download has returned an error, a piece task it left running was dropped
\* and a block task of it was aborted with it
C16_Witness ==
    /\ pc = "done"
    /\ \E p \in PieceIdx :
          /\ ptask[p].state = "aborted"
          /\ \E o \in DOMAIN btask[p] : btask[p][o].pc = "aborted"

\* the pieces of the file one after the other
FileData(t) ==
    [j \in 1..Units(t.length) |->
        TrueUnit((j - 1) \div Units(t.piece_length),
                 (j - 1) % Units(t.piece_length))]

\* the units of file_bytes that belong to piece p
RegionUnits(p) ==
    (p * Units(torrent.piece_length) + 1)..
        (p * Units(torrent.piece_length) + Units(PieceLen(torrent, p)))

\* C17: file_bytes has the length of the file; a piece that was written
\* holds its bytes in its own region; nothing is written outside the regions
\* of the written pieces; and the buffer download returns is the pieces in
\* index order, whatever the order the piece tasks ended in
C17_AssembledInOrder ==
    /\ (pc = "join" \/ result = "Ok") =>
           Len(file_bytes) = Units(torrent.length)
    /\ \A p \in written :
           Region(p) = TrueData(p, 0, PieceLen(torrent, p))
    /\ \A j \in 1..Len(file_bytes) :
           (\A p \in written : j \notin RegionUnits(p)) =>
               file_bytes[j] = Zero
    /\ \A p \in written : \A q \in written :
           p # q => RegionUnits(p) \cap RegionUnits(q) = {}
    /\ result = "Ok" => file_bytes = FileData(torrent)

\* download returned the buffer of a torrent of several pieces, the last of
\* them short
C17_Witness ==
    /\ result = "Ok"
    /\ NumPieces(torrent) = MaxPieces
    /\ PieceLen(torrent, MaxPieces - 1) < torrent.piece_length

\* C20: a download whose pieces were all scheduled and whose holders all
\* answered every REQUEST with the block asked for (no peer committed a
\* fault) ends with the buffer
C20_GoodHoldersReturnBuffer ==
    (/\ pc = "done"
     /\ faults = 0
     /\ \A p \in Pieces(torrent) : ptask[p].state # "idle") =>
        result = "Ok"

\* the offsets a block task may have
AllOffsets == {k * BLOCK_SIZE : k \in 0..(MaxBlocks - 1)}

\* block task (p, o) has sent its REQUEST and waits in recv
InRecv(p, o) ==
    /\ Running(p, o)
    /\ btask[p][o].pc = "recv"

\* C15: no wait on a peer lasts for ever: the wait for UNCHOKE ends, and so
\* does the wait of every block task for its PIECE, also when the peer sends
\* nothing
C15_NoUnboundedWait ==
    /\ (pc = "prepare") ~> (pc # "prepare")
    /\ \A p \in PieceIdx : \A o \in AllOffsets :
           InRecv(p, o) ~> ~InRecv(p, o)

\* the sum of the piece lengths computed
SumSizes ==
    LET RECURSIVE Sum(_)
        Sum(n) == IF n = 0 THEN 0 ELSE piece_sizes[n] + Sum(n - 1)
    IN Sum(Len(piece_sizes))

\* C14: for every metainfo and every piece index below the number of
\* hashes, the piece length computed in u32 does not overflow and is at most
\* piece_length, and the lengths of all pieces sum to the length of the file
C14_PieceSizes ==
    /\ result # "Panic: arithmetic overflow"
    /\ \A i \in 1..Len(piece_sizes) : piece_sizes[i] <= torrent.piece_length
    /\ pc = "done" => SumSizes = torrent.length

\* REQUESTs sent and not answered yet, over all sessions
InFlight ==
    LET RECURSIVE Sum(_)
        Sum(e) == IF e = 0 THEN 0 ELSE Len(outstanding[e]) + Sum(e - 1)
    IN Sum(MaxEndpoints)

\* the sessions made
NumSessions == Cardinality({e \in Endpoints : sessions[e].made})

\* C19: the block requests in flight are at most the size of the executor
\* pool times the number of sessions
C19_InFlightBounded == InFlight <= WORKER_THREADS * NumSessions

\* C13: the single-piece download writes to the output only bytes whose
\* SHA-1 is the hash of the piece asked for
C13_WrittenPieceVerified ==
    output # << >> => Sha1(output) = PieceHash(torrent, piece_index)

\* C18: the extended handshake is sent on a session only if the handshake
\* the client sent carried the extension bit and the peer's reply carried
\* it too
C18_ExtensionOnBothSides ==
    \A e \in extension_sent : HandshakeNew.ext /\ supports_extension[e]

\* the pieces spawn has been called for: those below the loop variable while
\* the spawn loop runs, all of them in the join loop
Scheduled ==
    IF pc = "spawn" THEN 0..(cur - 1)
    ELSE IF pc = "join" THEN Pieces(torrent)
    ELSE {}

\* C21: while download schedules, a piece has exactly one task in join_set
\* and is not written, or has none and is verified and written; no piece has
\* two tasks at once; a step writes one piece, which was not written before,
\* from the task join_next took; a written piece keeps its bytes and is not
\* spawned again
C21_OneTaskOrWritten ==
    /\ [](/\ \A p \in PieceIdx : join_set[p] <= 1
          /\ \A p \in Scheduled :
               \/ /\ join_set[p] = 1
                  /\ p \notin written
                  /\ ptask[p].state \in {"running", "finished", "panicked"}
               \/ /\ join_set[p] = 0
                  /\ p \in written
                  /\ ptask[p].state = "joined"
                  /\ Sha1(Region(p)) = PieceHash(torrent, p))
    /\ [][/\ written \subseteq written'
          /\ written' # written =>
                \E p \in Pieces(torrent) \ written :
                    /\ written' = written \cup {p}
                    /\ join_set[p] = 1
                    /\ join_set'[p] = 0
          /\ \A p \in written :
                /\ ptask'[p] = ptask[p]
                /\ join_set'[p] = 0
                /\ Region(p)' = Region(p)]_vars

\* in the join loop one piece is written and the task of another, which had
\* failed, was spawned again and is in join_set
C21_Witness ==
    /\ pc = "join"
    /\ respawns > 0
    /\ \E p \in written : \E q \in Pieces(torrent) \ written :
          /\ join_set[q] = 1
          /\ ptask[q].state = "running"

\* session e has sent INTERESTED once and the frame it read for it was
\* UNCHOKE
Prepared(e) ==
    /\ sessions[e].ready
    /\ sessions[e].interested = 1
    /\ inbound[e] # << >>
    /\ Head(inbound[e]).id = UNCHOKE

StoredAt(p, o) ==
    LET data == btask[p][o].data
        start == Units(o)
    IN /\ start + Len(data) <= Len(piecebuf[p])
       /\ SubSeq(piecebuf[p], start + 1, start + Len(data)) = data

\* C23: in whatever order the block tasks of a piece complete, the data each
\* returned is stored in the piece buffer at its offset; load_piece returns a
\* piece only when all its block tasks have returned data, and no piece when
\* one of them failed
C23_ReassembledByOffset ==
    \A p \in PieceIdx :
        /\ ptask[p].state \in {"running", "panicked"} =>
               \A o \in DOMAIN btask[p] :
                   btask[p][o].pc = "done" => StoredAt(p, o)
        /\ (ptask[p].state = "finished" /\ ptask[p].data # << >>) =>
               \A o \in DOMAIN btask[p] : btask[p][o].pc = "done"
        /\ (ptask[p].state = "finished"
                /\ \E o \in DOMAIN btask[p] :
                       btask[p][o].pc \in {"err", "panicked"}) =>
               ptask[p].data = << >>

\* the sum of the lengths of the blocks spawned
SumBlocks ==
    LET RECURSIVE Sum(_)
        Sum(n) == IF n = 0 THEN 0 ELSE blocks[n].length + Sum(n - 1)
    IN Sum(Len(blocks))

\* C24: for a piece of L bytes the block loop spawns ceil(L / BLOCK_SIZE)
\* blocks, at the offsets 0, BLOCK_SIZE, 2 * BLOCK_SIZE, ..; every block but
\* the last has BLOCK_SIZE bytes and the last has L minus its offset; each
\* block starts where the one before it ends, the first at 0, and the last
\* ends at L (the blocks are disjoint and cover [0, L))
C24_BlockLayout ==
    LET L == PieceLen(torrent, 0)
        n == CeilDiv(L, BLOCK_SIZE)
    IN /\ Len(blocks) <= n
       /\ \A i \in 1..Len(blocks) :
             /\ blocks[i].offset = (i - 1) * BLOCK_SIZE
             /\ blocks[i].length >= 1
             /\ blocks[i].length =
                    (IF i < n THEN BLOCK_SIZE ELSE L - blocks[i].offset)
             /\ i > 1 =>
                    blocks[i].offset =
                        blocks[i - 1].offset + blocks[i - 1].length
       /\ pc = "done" =>
             /\ Len(blocks) = n
             /\ blocks[n].offset + blocks[n].length = L
             /\ SumBlocks = L
             /\ {blocks[i].offset : i \in 1..n} = BlockOffsets(L)

\* the loop has ended on a piece of several blocks, the last of them short
C24_Witness ==
    /\ pc = "done"
    /\ Len(blocks) = MaxPieceBlocks
    /\ blocks[Len(blocks)].length < BLOCK_SIZE

====
